---- MODULE Spec2Model ----
(***************************************************************************)
(* BlobFS (python/blobfs/impl.py): the blob compiler (BlobCompiler), the   *)
(* blob loader (BlobLoader) and the module functions compile and load.     *)
(*                                                                         *)
(* Bytes are naturals 0..255, byte strings are sequences of bytes, a str   *)
(* is a sequence of code points.  A tree node is a record                  *)
(*   [kind |-> "file", data |-> bytes, kids |-> <<>>]           (bytes)    *)
(*   [kind |-> "dir",  data |-> <<>>,  kids |-> <<[name, node], ...>>]     *)
(* where kids lists the items of a Python dict in insertion order.         *)
(***************************************************************************)
EXTENDS Integers, Sequences, FiniteSets, TLC

\* ------------------------------------------------------------------ bounds
MaxKids == 2
RecursionLimit == 6
MaxCompiles == 2

\* --------------------------------------------------------------- constants
PTR_SIZE == 4
ENTRY_SIZE == 1 + 2 * PTR_SIZE
DIRENTRY_SIZE == PTR_SIZE + ENTRY_SIZE
IS_DIR == 1
DEFLATE == 2

\* ------------------------------------------------------------ byte helpers
\* flags & bit, for bit a power of two
HasFlag(flags, bit) == (flags \div bit) % 2 = 1

\* struct.pack("<I", n)
PackU32(n) ==
    << n % 256, (n \div 256) % 256, (n \div 65536) % 256, (n \div 16777216) % 256 >>

\* struct.unpack("<I", b)[0], b of 4 bytes.  Values of 2^30 and more are all
\* represented by Huge = 2^30: each of them lies beyond every offset and every
\* count of a blob shorter than 2^30 bytes, and the loader only seeks to them,
\* counts up to them or reads that many bytes, so they behave alike.
Huge == 64 * 16777216

UnpackU32(b) ==
    IF b[4] >= 64 THEN Huge ELSE b[1] + 256 * b[2] + 65536 * b[3] + 16777216 * b[4]

\* struct.pack("<BII", flags, size, ptr)
PackEntry(flags, size, ptr) == <<flags % 256>> \o PackU32(size) \o PackU32(ptr)

\* struct.unpack("<BII", b), b of 9 bytes
UnpackEntry(b) ==
    [flags |-> b[1], size |-> UnpackU32(SubSeq(b, 2, 5)), ptr |-> UnpackU32(SubSeq(b, 6, 9))]

\* io.BytesIO.read(n) at cursor pos: the bytes available, never past the end
Read(blob, pos, n) ==
    IF pos >= Len(blob) THEN <<>>
    ELSE SubSeq(blob, pos + 1, IF n >= Len(blob) - pos THEN Len(blob) ELSE pos + n)

\* b"x" * n
RECURSIVE Repeat(_, _)
Repeat(b, n) == IF n = 0 THEN <<>> ELSE <<b>> \o Repeat(b, n - 1)

\* bytes(name, "utf-8") for a str of code points (no surrogates)
Utf8EncodeChar(c) ==
    IF c < 128 THEN <<c>>
    ELSE IF c < 2048 THEN <<192 + (c \div 64), 128 + (c % 64)>>
    ELSE IF c < 65536 THEN <<224 + (c \div 4096), 128 + ((c \div 64) % 64), 128 + (c % 64)>>
    ELSE <<240 + (c \div 262144), 128 + ((c \div 4096) % 64),
           128 + ((c \div 64) % 64), 128 + (c % 64)>>

RECURSIVE Utf8Encode(_)
Utf8Encode(s) == IF s = <<>> THEN <<>> ELSE Utf8EncodeChar(Head(s)) \o Utf8Encode(Tail(s))

IsCont(b) == b >= 128 /\ b <= 191

\* str(b, "utf-8"): strict decoding; ok is FALSE where Python raises
\* UnicodeDecodeError
RECURSIVE Utf8Decode(_)
Utf8Decode(b) ==
    IF b = <<>> THEN [ok |-> TRUE, str |-> <<>>]
    ELSE LET b1 == b[1]
             n  == IF b1 < 128 THEN 1
                   ELSE IF b1 >= 194 /\ b1 <= 223 THEN 2
                   ELSE IF b1 >= 224 /\ b1 <= 239 THEN 3
                   ELSE IF b1 >= 240 /\ b1 <= 244 THEN 4
                   ELSE 0
             good == /\ n > 0
                     /\ Len(b) >= n
                     /\ \A k \in 2..n : IsCont(b[k])
                     /\ (b1 = 224 => b[2] >= 160)
                     /\ (b1 = 237 => b[2] <= 159)
                     /\ (b1 = 240 => b[2] >= 144)
                     /\ (b1 = 244 => b[2] <= 143)
             cp == IF n = 1 THEN b1
                   ELSE IF n = 2 THEN (b1 - 192) * 64 + (b[2] - 128)
                   ELSE IF n = 3 THEN (b1 - 224) * 4096 + (b[2] - 128) * 64 + (b[3] - 128)
                   ELSE (b1 - 240) * 262144 + (b[2] - 128) * 4096
                        + (b[3] - 128) * 64 + (b[4] - 128)
         IN IF ~good THEN [ok |-> FALSE, str |-> <<>>]
            ELSE LET rest == Utf8Decode(SubSeq(b, n + 1, Len(b)))
                 IN IF rest.ok THEN [ok |-> TRUE, str |-> <<cp>> \o rest.str]
                    ELSE [ok |-> FALSE, str |-> <<>>]

\* a < b for str (code points) or bytes, the order of Python's sequence
\* comparison
RECURSIVE LexLess(_, _)
LexLess(a, b) ==
    IF b = <<>> THEN FALSE
    ELSE IF a = <<>> THEN TRUE
    ELSE IF Head(a) # Head(b) THEN Head(a) < Head(b)
    ELSE LexLess(Tail(a), Tail(b))

\* ------------------------------------------------------------------- trees
File(d) == [kind |-> "file", data |-> d, kids |-> <<>>]
Dir(items) == [kind |-> "dir", data |-> <<>>, kids |-> items]
Item(n, t) == [name |-> n, node |-> t]
NoTree == [kind |-> "none", data |-> <<>>, kids |-> <<>>]

\* sorted(entry.items()): items in ascending order of the name (names are
\* unique keys of the dict, so the values are never compared)
RECURSIVE InsertItem(_, _)
InsertItem(it, s) ==
    IF s = <<>> THEN <<it>>
    ELSE IF LexLess(it.name, Head(s).name) THEN <<it>> \o s
    ELSE <<Head(s)>> \o InsertItem(it, Tail(s))

RECURSIVE SortByName(_)
SortByName(items) ==
    IF items = <<>> THEN <<>> ELSE InsertItem(Head(items), SortByName(Tail(items)))

\* entry.items() taken in the order of the dict
Unsorted(items) == items

sorted(items) == SortByName(items)

\* zlib.compress(data) (level 6), on the file contents the model draws
A11 == Repeat(65, 11)
A12 == Repeat(65, 12)
Hi == <<104, 105>>
TableLike == <<9, 0, 0, 0, 0, 0, 0, 0, 0, 26, 0, 0, 0>>
TablePrefixed == <<9, 0, 0, 0, 0, 2, 0, 0, 0, 27, 0, 0, 0, 7>>

ZlibTable ==
    (<<>> :> <<120, 156, 3, 0, 0, 0, 0, 1>>)
    @@ (Hi :> <<120, 156, 203, 200, 4, 0, 1, 59, 0, 210>>)
    @@ (A11 :> <<120, 156, 115, 116, 132, 3, 0, 16, 205, 2, 204>>)
    @@ (A12 :> <<120, 156, 115, 116, 68, 0, 0, 19, 218, 3, 13>>)
    @@ (TableLike :> <<120, 156, 227, 100, 128, 2, 41, 32, 6, 0, 0, 234, 0, 36>>)
    @@ (TablePrefixed :>
          <<120, 156, 227, 100, 0, 2, 38, 32, 150, 6, 98, 118, 0, 1, 44, 0, 46>>)

zlib_compress(data) == ZlibTable[data]

\* ---------------------------------------------------------------- compiler
\* self of a BlobCompiler: [blob, cache, compress, calls]; calls records the
\* store_data calls of the running compile (data, returned offset, whether
\* blob.write was executed)
NoCache == [d \in {} |-> 0]

\* a store_data without the cache lookup of line 27
store_data_always_append(self, data) ==
    LET off == Len(self.blob)
    IN [self |-> [self EXCEPT !.blob = @ \o data,
                              !.cache = (data :> off) @@ @,
                              !.calls = Append(@, [data |-> data, ret |-> off, wrote |-> TRUE])],
        ret |-> off]

\* the TODO of line 26 carried out: data that is a prefix of a cached entry
\* shares that entry's bytes
store_data_sharing_prefixes(self, data) ==
    LET hits == {d \in DOMAIN self.cache :
                    Len(d) >= Len(data) /\ SubSeq(d, 1, Len(data)) = data}
    IN IF hits = {}
       THEN LET off == Len(self.blob)
            IN [self |-> [self EXCEPT !.blob = @ \o data,
                                      !.cache = (data :> off) @@ @,
                                      !.calls = Append(@, [data |-> data, ret |-> off,
                                                           wrote |-> TRUE])],
                ret |-> off]
       ELSE LET first == CHOOSE d \in hits : \A x \in hits : self.cache[d] <= self.cache[x]
            IN [self |-> [self EXCEPT !.calls = Append(@, [data |-> data,
                                                           ret |-> self.cache[first],
                                                           wrote |-> FALSE])],
                ret |-> self.cache[first]]

store_data(self, data) ==
    IF data \notin DOMAIN self.cache
    THEN LET off == Len(self.blob)
         IN [self |-> [self EXCEPT !.blob = @ \o data,
                                   !.cache = (data :> off) @@ @,
                                   !.calls = Append(@, [data |-> data, ret |-> off,
                                                        wrote |-> TRUE])],
             ret |-> off]
    ELSE [self |-> [self EXCEPT !.calls = Append(@, [data |-> data,
                                                     ret |-> self.cache[data],
                                                     wrote |-> FALSE])],
          ret |-> self.cache[data]]

\* a store_compressed_data that also takes the deflated form when it is as
\* long as the data
store_compressed_data_on_tie(self, data) ==
    LET zdata == zlib_compress(data)
    IN IF self.compress /\ Len(zdata) <= Len(data)
       THEN store_data(self, zdata) @@ [flags |-> DEFLATE]
       ELSE store_data(self, data) @@ [flags |-> 0]

store_compressed_data(self, data) ==
    LET zdata == zlib_compress(data)
    IN IF self.compress /\ Len(zdata) < Len(data)
       THEN store_data(self, zdata) @@ [flags |-> DEFLATE]
       ELSE store_data(self, data) @@ [flags |-> 0]

\* create_entry returns [self, ret]: the compiler after the call and the
\* packed 9-byte entry.  entry_table is the loop of lines 47-50 from the
\* items still to visit and the table built so far.
RECURSIVE create_entry(_, _), entry_table(_, _, _)
entry_table(self, items, table) ==
    IF items = <<>> THEN [self |-> self, ret |-> table]
    ELSE LET child == Head(items)
             nm == store_data(self, Utf8Encode(child.name) \o <<0>>)
             ce == create_entry(nm.self, child.node)
         IN entry_table(ce.self, Tail(items), table \o PackU32(nm.ret) \o ce.ret)

create_entry(self, entry) ==
    IF entry.kind = "dir"
    THEN LET flags == IS_DIR
             size == Len(entry.kids)
             et == entry_table(self, sorted(entry.kids), <<>>)
             st == store_data(et.self, et.ret)
         IN [self |-> st.self, ret |-> PackEntry(flags, size, st.ret)]
    ELSE LET size == Len(entry.data)
             sc == store_compressed_data(self, entry.data)
         IN [self |-> sc.self, ret |-> PackEntry(sc.flags, size, sc.ret)]

\* BlobCompiler.compile(root): [self, ret] with ret the returned bytes
\* a compile without the placeholder of lines 66-68
compile_without_placeholder(self, root) ==
    LET start == [self EXCEPT !.blob = <<>>, !.calls = <<>>]
        ce == create_entry(start, root)
        patched == ce.ret \o SubSeq(ce.self.blob, ENTRY_SIZE + 1, Len(ce.self.blob))
    IN [self |-> [ce.self EXCEPT !.blob = patched], ret |-> patched]

compile(self, root) ==
    LET start == [self EXCEPT !.blob = Repeat(120, ENTRY_SIZE), !.calls = <<>>]
        ce == create_entry(start, root)
        patched == ce.ret \o SubSeq(ce.self.blob, ENTRY_SIZE + 1, Len(ce.self.blob))
    IN [self |-> [ce.self EXCEPT !.blob = patched], ret |-> patched]

\* BlobCompiler(compress=compress)
BlobCompiler(c) == [blob |-> <<>>, cache |-> NoCache, compress |-> c, calls |-> <<>>]

\* ------------------------------------------------------------------ inputs
Na == <<97>>
Nb == <<98>>
Ne == <<233>>
Names == {Na, Nb, Ne}
Leaves == {File(<<>>), File(Hi), File(A12)}

\* dicts of at most MaxKids items over Names and Leaves, in every insertion
\* order
RECURSIVE Dicts(_)
Dicts(n) ==
    IF n = 0 THEN {<<>>}
    ELSE LET smaller == Dicts(n - 1)
         IN smaller \cup
            { Append(d, Item(nm, lf)) :
                d \in {x \in smaller : Len(x) = n - 1},
                nm \in Names, lf \in Leaves }

UniqueNames(d) == \A i, j \in 1..Len(d) : d[i].name = d[j].name => i = j

FlatDirs == { Dir(d) : d \in {x \in Dicts(MaxKids) : UniqueNames(x)} }

Special ==
    { Dir(<<Item(Na, File(<<>>))>>),
      Dir(<<Item(Nb, File(A11)), Item(Na, File(A12))>>),
      Dir(<<Item(Nb, Dir(<<Item(Ne, File(Hi))>>)), Item(Na, Dir(<<>>))>>),
      Dir(<<Item(Nb, Dir(<<Item(Na, File(Hi))>>)), Item(Na, Dir(<<Item(Na, File(Hi))>>))>>),
      Dir(<<Item(Na, File(TableLike)), Item(Nb, Dir(<<Item(Na, File(<<>>))>>))>>),
      Dir(<<Item(Na, File(TablePrefixed)), Item(Nb, Dir(<<Item(Na, File(Hi))>>))>>) }

Trees == Leaves \cup FlatDirs \cup Special

\* blobs given to load that no compile produced: a directory whose name
\* pointer leads past the end of the blob, a directory whose child entry is
\* the directory itself, a name that is not UTF-8
Unterminated == <<1, 1, 0, 0, 0, 0, 0, 0, 0>>
Cyclic ==
    <<1, 1, 0, 0, 0, 9, 0, 0, 0, 22, 0, 0, 0, 1, 1, 0, 0, 0, 9, 0, 0, 0, 97, 0>>
BadName ==
    <<1, 1, 0, 0, 0, 9, 0, 0, 0, 22, 0, 0, 0, 0, 0, 0, 0, 0, 22, 0, 0, 0, 255, 0>>
Malformed == {Unterminated, Cyclic, BadName}

DropLast(b) == SubSeq(b, 1, Len(b) - 1)

Threads == {1, 2}

\* tree, comp: the input tree and the BlobCompiler; out: the bytes compile
\* returned; returned: the (tree, blob) pairs of the compile calls made on comp
\* lblob, pos: the bytes and the cursor of the loader's BytesIO
\* job[t]: the argument of thread t's outermost load_entry call (-1: none)
\* stack[t]: the call stack of thread t; result[t]: what its call returned
VARIABLES tree, comp, out, returned, phase, lblob, pos, job, stack, result

vars == <<tree, comp, out, returned, phase, lblob, pos, job, stack, result>>

compilerVars == <<tree, comp, out, returned>>

NoResult == [status |-> "none", err |-> "", val |-> NoTree]
Ok(v) == [status |-> "ok", err |-> "", val |-> v]
Error(e) == [status |-> "error", err |-> e, val |-> NoTree]

\* the state after BlobCompiler(compress) is constructed, for an input tree
\* drawn from inputs
InitFrom(inputs) ==
    /\ tree \in inputs
    /\ comp \in {BlobCompiler(c) : c \in BOOLEAN}
    /\ out = <<>>
    /\ returned = <<>>
    /\ phase = "ready"
    /\ lblob = <<>>
    /\ pos = 0
    /\ job = [t \in Threads |-> -1]
    /\ stack = [t \in Threads |-> <<>>]
    /\ result = [t \in Threads |-> NoResult]

Init == InitFrom(Trees)

loaderVars == <<lblob, pos, job, stack, result>>

\* compile(data, compress): BlobCompiler(compress=compress).compile(data)
Compile ==
    /\ phase = "ready"
    /\ LET r == compile(comp, tree)
       IN /\ comp' = r.self
          /\ out' = r.ret
          /\ returned' = Append(returned, [tree |-> tree, blob |-> r.ret])
    /\ phase' = "compiled"
    /\ UNCHANGED <<tree, loaderVars>>

\* ------------------------------------------------------------------ loader
EntryFrame(ptr) ==
    [fn |-> "load_entry", pc |-> "seek", ptr |-> ptr, flags |-> 0, size |-> 0,
     i |-> 0, acc |-> <<>>, name |-> <<>>, c |-> <<>>]
StringFrame(ptr) ==
    [fn |-> "load_string", pc |-> "seek", ptr |-> ptr, flags |-> 0, size |-> 0,
     i |-> 0, acc |-> <<>>, name |-> <<>>, c |-> <<>>]

Top(t) == stack[t][Len(stack[t])]
Running(t, fn, pc) == stack[t] # <<>> /\ Top(t).fn = fn /\ Top(t).pc = pc

\* ret[name] = child on a dict held as its items in insertion order
DictSet(items, name, v) ==
    IF \E k \in 1..Len(items) : items[k].name = name
    THEN [k \in 1..Len(items) |->
            IF items[k].name = name THEN Item(name, v) ELSE items[k]]
    ELSE Append(items, Item(name, v))

\* an exception leaves every frame of the thread
Raise(t, e) ==
    /\ stack' = [stack EXCEPT ![t] = <<>>]
    /\ result' = [result EXCEPT ![t] = Error(e)]

SetTop(t, f) ==
    /\ stack' = [stack EXCEPT ![t][Len(stack[t])] = f]
    /\ UNCHANGED result

\* the top frame, replaced by f, calls a function: frame g is pushed unless
\* the interpreter's recursion limit is reached
Call(t, f, g) ==
    IF Len(stack[t]) >= RecursionLimit
    THEN Raise(t, "RecursionError")
    ELSE /\ stack' = [stack EXCEPT ![t] =
                        SubSeq(stack[t], 1, Len(stack[t]) - 1) \o <<f, g>>]
         /\ UNCHANGED result

\* load_entry returns v: to the thread's caller, or to line 101 of the
\* calling load_entry, which stores the child and advances to the next record
ReturnEntry(t, v) ==
    IF Len(stack[t]) = 1
    THEN /\ stack' = [stack EXCEPT ![t] = <<>>]
         /\ result' = [result EXCEPT ![t] = Ok(v)]
    ELSE LET caller == stack[t][Len(stack[t]) - 1]
             cont == [caller EXCEPT !.acc = DictSet(caller.acc, caller.name, v),
                                    !.ptr = caller.ptr + ENTRY_SIZE,
                                    !.i = caller.i + 1,
                                    !.pc = "loop"]
         IN /\ stack' = [stack EXCEPT ![t] =
                           SubSeq(stack[t], 1, Len(stack[t]) - 2) \o <<cont>>]
            /\ UNCHANGED result

\* load(blob): BlobLoader(blob).root, i.e. load_entry(0) on a new BytesIO
LoadStart ==
    /\ phase = "compiled"
    /\ lblob' \in {out, DropLast(out)} \cup Malformed
    /\ pos' = 0
    /\ job' = [job EXCEPT ![1] = 0]
    /\ stack' = [stack EXCEPT ![1] = <<EntryFrame(0)>>]
    /\ phase' = "loading"
    /\ UNCHANGED <<compilerVars, result>>

\* load_entry, line 90: self.blob.seek(ptr)
EntrySeek(t) ==
    /\ Running(t, "load_entry", "seek")
    /\ pos' = Top(t).ptr
    /\ SetTop(t, [Top(t) EXCEPT !.pc = "read"])
    /\ UNCHANGED <<compilerVars, phase, lblob, job>>

\* load_entry, lines 91-95: read and unpack the entry
EntryRead(t) ==
    /\ Running(t, "load_entry", "read")
    /\ LET data == Read(lblob, pos, ENTRY_SIZE)
       IN /\ pos' = pos + Len(data)
          /\ IF Len(data) # ENTRY_SIZE
             THEN Raise(t, "struct.error")
             ELSE LET e == UnpackEntry(data)
                  IN SetTop(t, [Top(t) EXCEPT !.flags = e.flags, !.size = e.size,
                                              !.ptr = e.ptr, !.i = 0, !.acc = <<>>,
                                              !.pc = IF HasFlag(e.flags, IS_DIR)
                                                     THEN "loop" ELSE "fseek"])
    /\ UNCHANGED <<compilerVars, phase, lblob, job>>

\* load_entry, lines 96-97 and 103: next record of the table, or return ret
DirLoop(t) ==
    /\ Running(t, "load_entry", "loop")
    /\ IF Top(t).i < Top(t).size
       THEN /\ pos' = Top(t).ptr
            /\ SetTop(t, [Top(t) EXCEPT !.pc = "nameptr"])
       ELSE /\ pos' = pos
            /\ ReturnEntry(t, Dir(Top(t).acc))
    /\ UNCHANGED <<compilerVars, phase, lblob, job>>

\* load_entry, lines 98-99: read the name pointer, call load_string
DirReadNamePtr(t) ==
    /\ Running(t, "load_entry", "nameptr")
    /\ LET data == Read(lblob, pos, PTR_SIZE)
       IN /\ pos' = pos + Len(data)
          /\ IF Len(data) # PTR_SIZE
             THEN Raise(t, "struct.error")
             ELSE Call(t, [Top(t) EXCEPT !.pc = "name"], StringFrame(UnpackU32(data)))
    /\ UNCHANGED <<compilerVars, phase, lblob, job>>

\* load_string, line 80: self.blob.seek(ptr)
StringSeek(t) ==
    /\ Running(t, "load_string", "seek")
    /\ pos' = Top(t).ptr
    /\ SetTop(t, [Top(t) EXCEPT !.pc = "read"])
    /\ UNCHANGED <<compilerVars, phase, lblob, job>>

\* load_string, line 83: c = self.blob.read(1)
StringRead(t) ==
    /\ Running(t, "load_string", "read")
    /\ LET c == Read(lblob, pos, 1)
       IN /\ pos' = pos + Len(c)
          /\ SetTop(t, [Top(t) EXCEPT !.c = c, !.pc = "test"])
    /\ UNCHANGED <<compilerVars, phase, lblob, job>>

\* load_string, lines 84-87: at the terminator the decoded name returns to
\* line 99, whose load_entry goes on to lines 100-101 and calls load_entry for
\* the child (at the depth load_string ran at, so within the recursion limit);
\* any other c, the empty one read at the end of the blob included, is
\* appended and the loop reads again
StringTest(t) ==
    /\ Running(t, "load_string", "test")
    /\ IF Top(t).c = <<0>>
       THEN LET dec == Utf8Decode(Top(t).acc)
                caller == stack[t][Len(stack[t]) - 1]
                cont == [caller EXCEPT !.name = dec.str,
                                       !.ptr = caller.ptr + PTR_SIZE,
                                       !.pc = "child"]
            IN IF ~dec.ok
               THEN Raise(t, "UnicodeDecodeError")
               ELSE /\ stack' = [stack EXCEPT ![t] =
                                   SubSeq(stack[t], 1, Len(stack[t]) - 2)
                                   \o <<cont, EntryFrame(cont.ptr)>>]
                    /\ UNCHANGED result
       ELSE SetTop(t, [Top(t) EXCEPT !.acc = Top(t).acc \o Top(t).c, !.pc = "read"])
    /\ UNCHANGED <<compilerVars, phase, lblob, pos, job>>

\* load_entry, line 105: self.blob.seek(ptr)
FileSeek(t) ==
    /\ Running(t, "load_entry", "fseek")
    /\ pos' = Top(t).ptr
    /\ SetTop(t, [Top(t) EXCEPT !.pc = "fread"])
    /\ UNCHANGED <<compilerVars, phase, lblob, job>>

\* load_entry, lines 106-110: the name gzip is not bound in impl.py, so the
\* DEFLATE branch raises NameError; otherwise return self.blob.read(size)
FileRead(t) ==
    /\ Running(t, "load_entry", "fread")
    /\ IF HasFlag(Top(t).flags, DEFLATE)
       THEN /\ pos' = pos
            /\ Raise(t, "NameError")
       ELSE LET data == Read(lblob, pos, Top(t).size)
            IN /\ pos' = pos + Len(data)
               /\ ReturnEntry(t, File(data))
    /\ UNCHANGED <<compilerVars, phase, lblob, job>>

LoadStep(t) ==
    \/ EntrySeek(t)
    \/ EntryRead(t)
    \/ DirLoop(t)
    \/ DirReadNamePtr(t)
    \/ StringSeek(t)
    \/ StringRead(t)
    \/ StringTest(t)
    \/ FileSeek(t)
    \/ FileRead(t)

Next ==
    \/ Compile
    \/ LoadStart
    \/ \E t \in Threads : LoadStep(t)

Spec == Init /\ [][Next]_vars

\* a load call that can take a step takes it: the interpreter keeps running
\* the thread that called load
FairSpec == Spec /\ WF_vars(\E t \in Threads : LoadStep(t))

\* One BlobCompiler used for several compile calls: after a compile returned,
\* the caller passes another tree to the same instance.
ReuseTrees == Special \cup {File(Hi)}

NewInput ==
    /\ phase = "compiled"
    /\ Len(returned) < MaxCompiles
    /\ tree' \in ReuseTrees
    /\ phase' = "ready"
    /\ UNCHANGED <<comp, out, returned, loaderVars>>

NextReuse ==
    \/ Compile
    \/ NewInput

SpecReuse == Init /\ [][NextReuse]_vars

\* Two threads share one BlobLoader of a compiled blob; each calls load_entry
\* on the entry of a different child of the root (or one thread runs alone).
HdrAt(b, off) ==
    IF off + ENTRY_SIZE <= Len(b)
    THEN UnpackEntry(SubSeq(b, off + 1, off + ENTRY_SIZE))
    ELSE [flags |-> 255, size |-> 0, ptr |-> 0]

ChildEntryPtr(b, k) == HdrAt(b, 0).ptr + (k - 1) * DIRENTRY_SIZE + PTR_SIZE

ConcStart ==
    /\ phase = "compiled"
    /\ tree.kind = "dir"
    /\ Len(tree.kids) >= 2
    /\ lblob' = out
    /\ pos' = 0
    /\ \E k1, k2 \in 0..Len(tree.kids) :
         /\ k1 # k2
         /\ job' = [t \in Threads |->
                      LET k == IF t = 1 THEN k1 ELSE k2
                      IN IF k = 0 THEN -1 ELSE ChildEntryPtr(out, k)]
         /\ stack' = [t \in Threads |->
                        LET k == IF t = 1 THEN k1 ELSE k2
                        IN IF k = 0 THEN <<>> ELSE <<EntryFrame(ChildEntryPtr(out, k))>>]
    /\ phase' = "loading"
    /\ UNCHANGED <<compilerVars, result>>

NextConc ==
    \/ Compile
    \/ ConcStart
    \/ \E t \in Threads : LoadStep(t)

ConcTrees == {d \in FlatDirs : Len(d.kids) = 2}

InitConc == InitFrom(ConcTrees)

SpecConc == InitConc /\ [][NextConc]_vars

\* ------------------------------------------------- reading a compiled blob
\* the n bytes of b at offset off (<<-1>>, equal to no byte string, when the
\* region does not lie inside b)
Slice(b, off, n) == IF off + n <= Len(b) THEN SubSeq(b, off + 1, off + n) ELSE <<-1>>

U32At(b, off) == IF off + PTR_SIZE <= Len(b) THEN UnpackU32(SubSeq(b, off + 1, off + PTR_SIZE)) ELSE Huge

\* the bytes of b from off up to the next 0x00 (or the end of b)
RECURSIVE CStrAt(_, _)
CStrAt(b, off) ==
    IF off >= Len(b) \/ b[off + 1] = 0 THEN <<>> ELSE <<b[off + 1]>> \o CStrAt(b, off + 1)

\* the records of the child table of a directory entry h
Table(b, h) ==
    [k \in 1..(IF h.size <= Len(b) THEN h.size ELSE 0) |->
        LET off == h.ptr + (k - 1) * DIRENTRY_SIZE
        IN [off |-> off,
            name_ptr |-> U32At(b, off),
            name |-> CStrAt(b, U32At(b, off)),
            entry |-> HdrAt(b, off + PTR_SIZE)]]

\* the entries of blob b that belong to the nodes of the input tree: the root
\* entry at offset 0, and for a directory the entry of each record whose name
\* is the name of one of its children
RECURSIVE Entries(_, _, _, _)
Entries(b, off, node, path) ==
    LET h == HdrAt(b, off)
        me == [path |-> path, node |-> node, entry |-> h, off |-> off]
        T == Table(b, h)
    IN IF node.kind = "dir" /\ HasFlag(h.flags, IS_DIR)
       THEN {me} \cup UNION { UNION { Entries(b, T[k].off + PTR_SIZE, node.kids[m].node,
                                              Append(path, node.kids[m].name)) :
                                      m \in {x \in 1..Len(node.kids) :
                                               Utf8Encode(node.kids[x].name) = T[k].name} } :
                              k \in 1..Len(T) }
       ELSE {me}

RECURSIVE Nodes(_, _)
Nodes(node, path) ==
    {[path |-> path, node |-> node]}
    \cup UNION { Nodes(node.kids[m].node, Append(path, node.kids[m].name)) :
                 m \in 1..Len(node.kids) }

OutEntries == Entries(out, 0, tree, <<>>)

\* every node of the input tree has its entry in the blob
Covers == {[path |-> e.path, node |-> e.node] : e \in OutEntries} = Nodes(tree, <<>>)

Compiled == phase # "ready"

\* the file is stored deflated
Deflated(data) == comp.compress /\ Len(zlib_compress(data)) < Len(data)

\* the bytes stored for a file
Stored(data) == IF Deflated(data) THEN zlib_compress(data) ELSE data

RECURSIVE Canon(_)
Canon(node) ==
    IF node.kind = "dir"
    THEN Dir(SortByName([m \in 1..Len(node.kids) |->
                              Item(node.kids[m].name, Canon(node.kids[m].node))]))
    ELSE node

\* thread t's load_entry call has ended
Loaded(t) == phase = "loading" /\ job[t] >= 0 /\ stack[t] = <<>>

\* ------------------------------------------------------------------ claims

\* C1: round trip: load(compile(T, compress)) returns a tree equal to T, for
\* compress false and true; a file stored compressed is read back to its
\* original bytes.
RoundTrip ==
    (Loaded(1) /\ job[1] = 0 /\ lblob = out)
        => (result[1].status = "ok" /\ Canon(result[1].val) = Canon(tree))

\* C2: deduplication: in one compile call every byte string is appended by
\* store_data at most once, namely at its first store; every later store of an
\* equal string returns the offset of that first write; the bytes of the buffer
\* at the returned offset are the stored string; files with identical contents
\* get the same ptr in their entries and their payload is appended exactly once.
Dedup ==
    Compiled =>
        /\ \A j \in 1..Len(comp.calls) :
             LET c == comp.calls[j]
             IN /\ Slice(out, c.ret, Len(c.data)) = c.data
                /\ c.wrote <=> (\A i \in 1..(j - 1) : comp.calls[i].data # c.data)
                /\ \A i \in 1..(j - 1) :
                     comp.calls[i].data = c.data => comp.calls[i].ret = c.ret
        /\ Covers
        /\ \A e1, e2 \in OutEntries :
             (e1.node.kind = "file" /\ e2.node.kind = "file" /\ e1.node.data = e2.node.data)
                 => e1.entry.ptr = e2.entry.ptr
        /\ \A e \in OutEntries :
             e.node.kind = "file"
                 => Cardinality({j \in 1..Len(comp.calls) :
                                    comp.calls[j].wrote
                                    /\ comp.calls[j].data = Stored(e.node.data)}) = 1

\* a compiled tree with two files of identical contents in different entries,
\* the second of which was stored without a write
DedupWitness ==
    /\ Compiled
    /\ \E e1, e2 \in OutEntries :
         /\ e1.path # e2.path
         /\ e1.node.kind = "file" /\ e2.node = e1.node
         /\ Len(e1.node.data) > 0
         /\ e1.entry.ptr = e2.entry.ptr
    /\ \E j \in 1..Len(comp.calls) : ~comp.calls[j].wrote

\* C3: determinism: compile calls on the same tree return the same bytes, also
\* when they are made one after the other on the same BlobCompiler.
Deterministic ==
    \A i, j \in 1..Len(returned) :
        returned[i].tree = returned[j].tree => returned[i].blob = returned[j].blob

\* C4: bounds safety: load of any byte string of length 9 or more terminates
\* (with a tree or an error).
LoadTerminates == (phase = "loading" /\ Len(lblob) >= ENTRY_SIZE) ~> (stack[1] = <<>>)

\* C5: truncation rejection: load of a compiled blob without its last byte
\* fails; it returns no tree.
TruncationRejected ==
    (Loaded(1) /\ job[1] = 0 /\ lblob = DropLast(out)) => result[1].status = "error"

\* C6: concurrent reads: a thread that calls load_entry on a child of the root
\* while another thread calls it on another child gets what it gets alone: the
\* child's tree (NameError where the child holds a deflated file).
RECURSIVE HasDeflated(_)
HasDeflated(node) ==
    IF node.kind = "dir"
    THEN \E m \in 1..Len(node.kids) : HasDeflated(node.kids[m].node)
    ELSE Deflated(node.data)

Alone(node) == IF HasDeflated(node) THEN Error("NameError") ELSE Ok(Canon(node))

ChildOfJob(t) ==
    (CHOOSE k \in 1..Len(tree.kids) : ChildEntryPtr(out, k) = job[t]) 

ConcurrentReads ==
    \A t \in Threads :
        (Loaded(t) /\ job[t] > 0)
            => result[t] = Alone(sorted(tree.kids)[ChildOfJob(t)].node)

\* C7 (as stated): the smallest tree compiles to root entry flags=1, size=1,
\* ptr=9 with the 13-byte child record at offset 9.
SmallestTree == Dir(<<Item(Na, File(<<>>))>>)

SmallestAtNine ==
    (Compiled /\ tree = SmallestTree /\ ~comp.compress)
        => /\ HdrAt(out, 0) = [flags |-> IS_DIR, size |-> 1, ptr |-> 9]
           /\ CStrAt(out, U32At(out, 9)) = <<97>>
           /\ HdrAt(out, 9 + PTR_SIZE).flags = 0
           /\ HdrAt(out, 9 + PTR_SIZE).size = 0

\* C7 (amended): the smallest tree compiles to root entry flags=1, size=1,
\* ptr=11; the name bytes "a" 0x00 are at offset 9 and the 13-byte child record
\* is at offset 11, with name_ptr=9 and child entry flags=0, size=0, ptr=11.
SmallestLayout ==
    (Compiled /\ tree = SmallestTree /\ ~comp.compress)
        => /\ Len(out) = 24
           /\ HdrAt(out, 0) = [flags |-> IS_DIR, size |-> 1, ptr |-> 11]
           /\ Slice(out, 9, 2) = <<97, 0>>
           /\ U32At(out, 11) = 9
           /\ HdrAt(out, 11 + PTR_SIZE) = [flags |-> 0, size |-> 0, ptr |-> 11]

SmallestWitness == Compiled /\ tree = SmallestTree /\ ~comp.compress /\ Len(out) > ENTRY_SIZE

\* C8: compression gating: a file is stored deflated with flags DEFLATE iff
\* compress is on and the deflated form is strictly shorter; otherwise its raw
\* bytes are stored with flags 0; size is the uncompressed length either way.
Gating ==
    Compiled =>
        /\ Covers
        /\ \A e \in OutEntries :
             e.node.kind = "file" =>
                LET data == e.node.data
                    zdata == zlib_compress(data)
                    deflate == comp.compress /\ Len(zdata) < Len(data)
                IN /\ e.entry.flags = (IF deflate THEN DEFLATE ELSE 0)
                   /\ e.entry.size = Len(data)
                   /\ Slice(out, e.entry.ptr, Len(IF deflate THEN zdata ELSE data))
                        = (IF deflate THEN zdata ELSE data)

\* compress is on; one file is stored deflated, another, whose deflated form
\* is exactly as long as the file, is stored raw
GatingWitness ==
    /\ Compiled
    /\ comp.compress
    /\ \E e1, e2 \in OutEntries :
         /\ e1.node.kind = "file" /\ e1.entry.flags = DEFLATE
         /\ e2.node.kind = "file" /\ e2.entry.flags = 0
         /\ Len(e2.node.data) > 0
         /\ Len(zlib_compress(e2.node.data)) = Len(e2.node.data)

\* C9: sorted children: in every directory of a compiled blob the names of
\* consecutive records are strictly ascending as bytes, whatever the order of
\* the input mapping, and size is the number of records (one per child).
SortedChildren ==
    Compiled =>
        /\ Covers
        /\ \A e \in OutEntries :
             e.node.kind = "dir" =>
                LET T == Table(out, e.entry)
                IN /\ e.entry.size = Len(e.node.kids)
                   /\ Len(T) = Len(e.node.kids)
                   /\ {T[k].name : k \in 1..Len(T)}
                        = {Utf8Encode(e.node.kids[m].name) : m \in 1..Len(e.node.kids)}
                   /\ \A k \in 1..(Len(T) - 1) : LexLess(T[k].name, T[k + 1].name)

\* the input mapping lists a greater name before a smaller one, one of them
\* encoded in two bytes
SortedWitness ==
    /\ Compiled
    /\ tree.kind = "dir"
    /\ Len(tree.kids) = 2
    /\ LexLess(tree.kids[2].name, tree.kids[1].name)
    /\ tree.kids[1].name = Ne
    /\ Len(Table(out, HdrAt(out, 0))) = 2

\* C10: child tables reference data written before them.
\* the region of the child entry e: the bytes its ptr addresses
RegionLen(e) ==
    IF e.node.kind = "dir" THEN e.entry.size * DIRENTRY_SIZE ELSE Len(Stored(e.node.data))

\* the references of the record that holds the entry e, a child of directory
\* entry p, end at or before p's table
RefsBefore(e, p) ==
    /\ U32At(out, e.off - PTR_SIZE) + Len(Utf8Encode(e.path[Len(e.path)])) + 1 <= p.entry.ptr
    /\ e.entry.ptr + RegionLen(e) <= p.entry.ptr

ParentOf(e, p) == Len(e.path) > 0 /\ p.path = SubSeq(e.path, 1, Len(e.path) - 1)

\* C10 (as stated): for every input tree, in every directory each name_ptr and
\* each child ptr addresses a region that ends at or before the directory's
\* child table.
TablesAfterData ==
    Compiled =>
        /\ Covers
        /\ \A e, p \in OutEntries : ParentOf(e, p) => RefsBefore(e, p)

\* the child table of directory entry p is byte-equal to the bytes stored for
\* a file or for a name of the tree
TableEqualsFileOrName(p) ==
    LET table == Slice(out, p.entry.ptr, p.entry.size * DIRENTRY_SIZE)
    IN \E f \in OutEntries :
          \/ f.node.kind = "file" /\ Stored(f.node.data) = table
          \/ Len(f.path) > 0 /\ Utf8Encode(f.path[Len(f.path)]) \o <<0>> = table

\* C10 (amended): the same, for every directory whose child table is not
\* byte-equal to the bytes stored for a file or a name of the tree.
TablesAfterDataUnlessShared ==
    Compiled =>
        /\ Covers
        /\ \A e, p \in OutEntries :
             (ParentOf(e, p) /\ ~TableEqualsFileOrName(p)) => RefsBefore(e, p)

\* two directories with equal child tables share one table, and it holds a
\* record
TablesWitness ==
    /\ Compiled
    /\ \E p1, p2 \in OutEntries :
         /\ p1.node.kind = "dir" /\ p2.node.kind = "dir"
         /\ p1.path # p2.path
         /\ Len(p1.path) > 0 /\ Len(p2.path) > 0
         /\ p1.entry.size > 0
         /\ p1.entry.ptr = p2.entry.ptr
         /\ ~TableEqualsFileOrName(p1)

====
